---- MODULE Spec2Model ----
(***************************************************************************)
(* Model of the CSV -> CPA-005 converter of the Electron version:          *)
(*   src/electron/ach-converter.js  (Formatter, records, writeACHFile)     *)
(*   src/electron/app.js            (the convert button's loop over files) *)
(*                                                                         *)
(* Text is a sequence of one-character strings.  A JavaScript value is a   *)
(* record [t, c, s]: t = "null", t = "num" (c = the number in hundredths,  *)
(* so 100.5 is c = 10050 and the integer 7 is c = 700) or t = "str"        *)
(* (s = the characters).  A call that may throw returns [ok, err, s].      *)
(***************************************************************************)
EXTENDS Integers, Sequences, FiniteSets, TLC

(***************************************************************************)
(* JavaScript values and the built-ins the converter uses                  *)
(***************************************************************************)
Null == [t |-> "null", c |-> 0, s |-> <<>>]
Num(c) == [t |-> "num", c |-> c, s |-> <<>>]
JsInt(k) == Num(100 * k)
Str(s) == [t |-> "str", c |-> 0, s |-> s]

Ok(s) == [ok |-> TRUE, err |-> "", s |-> s]
Throw(e) == [ok |-> FALSE, err |-> e, s |-> <<>>]

Digits == <<"0", "1", "2", "3", "4", "5", "6", "7", "8", "9">>
DigitChar(d) == Digits[d + 1]
Abs(n) == IF n < 0 THEN -n ELSE n

RECURSIVE NatToString(_)
NatToString(n) ==
    IF n < 10 THEN <<DigitChar(n)>>
    ELSE NatToString(n \div 10) \o <<DigitChar(n % 10)>>

Sign(c) == IF c < 0 THEN <<"-">> ELSE <<>>

\* Number.prototype.toString of the number c/100
NumToString(c) ==
    LET ip == Abs(c) \div 100
        fp == Abs(c) % 100
        frac == IF fp = 0 THEN <<>>
                ELSE IF fp % 10 = 0 THEN <<".", DigitChar(fp \div 10)>>
                ELSE <<".", DigitChar(fp \div 10), DigitChar(fp % 10)>>
    IN Sign(c) \o NatToString(ip) \o frac

\* Number.prototype.toFixed(2) of the number c/100
ToFixed2(c) ==
    LET ip == Abs(c) \div 100
        fp == Abs(c) % 100
    IN Sign(c) \o NatToString(ip) \o <<".", DigitChar(fp \div 10), DigitChar(fp % 10)>>

\* v.toString(): null has no method
JsToString(v) ==
    IF v.t = "null" THEN Throw("TypeError")
    ELSE IF v.t = "num" THEN Ok(NumToString(v.c))
    ELSE Ok(v.s)

Repeat_clamped(ch, n) ==
    Ok([i \in 1..(IF n < 0 THEN 0 ELSE n) |-> ch])

\* String.prototype.repeat: a negative count is a RangeError
Repeat(ch, n) ==
    IF n < 0 THEN Throw("RangeError") ELSE Ok([i \in 1..n |-> ch])

\* String.prototype.replace(ch, ""): drops the first occurrence of ch
ReplaceFirst(s, ch) ==
    IF \E i \in 1..Len(s) : s[i] = ch
    THEN LET k == CHOOSE i \in 1..Len(s) : s[i] = ch /\ \A j \in 1..(i - 1) : s[j] # ch
         IN SubSeq(s, 1, k - 1) \o SubSeq(s, k + 1, Len(s))
    ELSE s

WhiteSpace == {" ", "\t"}

RECURSIVE TrimLeft(_)
TrimLeft(s) ==
    IF Len(s) > 0 /\ s[1] \in WhiteSpace THEN TrimLeft(Tail(s)) ELSE s

RECURSIVE TrimRight(_)
TrimRight(s) ==
    IF Len(s) > 0 /\ s[Len(s)] \in WhiteSpace
    THEN TrimRight(SubSeq(s, 1, Len(s) - 1)) ELSE s

\* String.prototype.trim
Trim(s) == TrimRight(TrimLeft(s))

\* !v
Falsy(v) ==
    \/ v.t = "null"
    \/ v.t = "num" /\ v.c = 0
    \/ v.t = "str" /\ v.s = <<>>

JsAdd_truncating(a, b) ==
    IF a.t = "num" /\ b.t = "num" THEN Num(a.c + 100 * (b.c \div 100)) ELSE a

\* a + b as `total_debit_amount += amount` evaluates it: numbers add, null
\* counts as 0 next to a number, anything next to a string concatenates
JsAdd(a, b) ==
    LET txt(v) == IF v.t = "null" THEN <<"n", "u", "l", "l">>
                  ELSE IF v.t = "num" THEN NumToString(v.c) ELSE v.s
        val(v) == IF v.t = "num" THEN v.c ELSE 0
    IN IF a.t = "str" \/ b.t = "str" THEN Str(txt(a) \o txt(b))
       ELSE Num(val(a) + val(b))

(***************************************************************************)
(* class Formatter                                                         *)
(***************************************************************************)
alphanumeric_unchecked(s, n) ==
    LET w == JsToString(s)
    IN IF ~w.ok THEN w
       ELSE IF n - Len(w.s) < 0 THEN Ok(w.s)
       ELSE Ok(w.s \o [i \in 1..(n - Len(w.s)) |-> " "])

alphanumeric(s, n) ==
    LET w == JsToString(s)
        pad == IF w.ok THEN Repeat(" ", n - Len(w.s)) ELSE w
    IN IF ~w.ok THEN w
       ELSE IF ~pad.ok THEN pad
       ELSE Ok(w.s \o pad.s)

money_truncated(amount, width) ==
    IF amount.t # "num" THEN Throw("TypeError")
    ELSE LET flt == NatToString(Abs(amount.c) \div 100)
             pad == Repeat("0", width - Len(flt))
         IN IF ~pad.ok THEN pad ELSE Ok(pad.s \o flt)

money(amount, width) ==
    IF amount.t # "num" THEN Throw("TypeError")
    ELSE LET flt == ReplaceFirst(ToFixed2(amount.c), ".")
             pad == Repeat("0", width - Len(flt))
         IN IF ~pad.ok THEN pad ELSE Ok(pad.s \o flt)

numeric_lenient(n, width) ==
    LET w == IF n.t = "null" THEN <<>> ELSE JsToString(n).s
        pad == Repeat("0", width - Len(w))
    IN IF ~pad.ok THEN pad ELSE Ok(pad.s \o w)

numeric(n, width) ==
    LET w == JsToString(n)
        pad == IF w.ok THEN Repeat("0", width - Len(w.s)) ELSE w
    IN IF ~w.ok THEN w
       ELSE IF ~pad.ok THEN pad
       ELSE Ok(pad.s \o w.s)

(***************************************************************************)
(* moment(payment_date, "YYYY/MM/DD") and .format("0YYDDDD")               *)
(***************************************************************************)
IsDigit(ch) == \E d \in 0..9 : Digits[d + 1] = ch
DigitVal(ch) == (CHOOSE d \in 1..10 : Digits[d] = ch) - 1

RECURSIVE ParseNat(_)
ParseNat(s) ==
    IF s = <<>> THEN 0
    ELSE 10 * ParseNat(SubSeq(s, 1, Len(s) - 1)) + DigitVal(s[Len(s)])

IsLeap(y) == (y % 4 = 0 /\ y % 100 # 0) \/ y % 400 = 0
MonthDays(y) ==
    <<31, IF IsLeap(y) THEN 29 ELSE 28, 31, 30, 31, 30, 31, 31, 30, 31, 30, 31>>

RECURSIVE DaysBefore(_, _)
DaysBefore(y, m) ==
    IF m = 1 THEN 0 ELSE DaysBefore(y, m - 1) + MonthDays(y)[m - 1]

InvalidMoment == [valid |-> FALSE, year |-> 0, dayOfYear |-> 0]

\* A text of the shape dddd/dd/dd naming a calendar day parses to that day;
\* an absent cell or a text without digits gives an invalid moment.
moment(v) ==
    IF v.t # "str" \/ Len(v.s) # 10 THEN InvalidMoment
    ELSE IF ~(/\ \A i \in {1, 2, 3, 4, 6, 7, 9, 10} : IsDigit(v.s[i])
              /\ v.s[5] = "/" /\ v.s[8] = "/") THEN InvalidMoment
    ELSE LET y == ParseNat(SubSeq(v.s, 1, 4))
             m == ParseNat(SubSeq(v.s, 6, 7))
             d == ParseNat(SubSeq(v.s, 9, 10))
         IN IF m \in 1..12 /\ d \in 1..MonthDays(y)[m]
            THEN [valid |-> TRUE, year |-> y, dayOfYear |-> DaysBefore(y, m) + d]
            ELSE InvalidMoment

ZeroFill(n, width) ==
    LET w == NatToString(n)
    IN [i \in 1..(IF width > Len(w) THEN width - Len(w) ELSE 0) |-> "0"] \o w

format_seven(m) ==
    IF ~m.valid THEN <<"I", "n", "v", "a", "l", "i", "d", " ", "d", "a", "t", "e">>
    ELSE <<"0">> \o ZeroFill(m.year % 100, 2) \o ZeroFill(m.dayOfYear, 4)

\* "0" is literal text, YY the two-digit year, DDDD the three-digit day of year
format(m) ==
    IF ~m.valid THEN <<"I", "n", "v", "a", "l", "i", "d", " ", "d", "a", "t", "e">>
    ELSE <<"0">> \o ZeroFill(m.year % 100, 2) \o ZeroFill(m.dayOfYear, 3)

(***************************************************************************)
(* Records: field lists joined in order; the first field that throws ends  *)
(* the rendering                                                           *)
(***************************************************************************)
RECURSIVE Join(_)
Join(parts) ==
    IF parts = <<>> THEN Ok(<<>>)
    ELSE IF ~parts[1].ok THEN parts[1]
    ELSE LET rest == Join(Tail(parts))
         IN IF rest.ok THEN Ok(parts[1].s \o rest.s) ELSE rest

Fill(ch, n) == Ok([i \in 1..n |-> ch])

ACHHeader(count, client_no, file_no, processing_centre, currency_code) ==
    [type |-> Str(<<"A">>), count |-> count, client_no |-> client_no,
     file_no |-> file_no, processing_centre |-> processing_centre,
     currency_code |-> currency_code]

ACHHeader_toString(h) ==
    Join(<<alphanumeric(h.type, 1),
           numeric(h.count, 9),
           alphanumeric(h.client_no, 10),
           alphanumeric(h.file_no, 4),
           numeric(h.processing_centre, 5),
           Fill(" ", 20),
           alphanumeric(h.currency_code, 3)>>)

Segment(transaction_code, amount, payment_date, transit, account_no, client_short_name, customer_name, client_long_name, client_no, customer_no, client_sundry_no) ==
    [transaction_code |-> transaction_code, amount |-> amount,
     payment_date |-> payment_date, transit |-> transit,
     account_no |-> account_no, client_short_name |-> client_short_name,
     customer_name |-> customer_name, client_long_name |-> client_long_name,
     client_no |-> client_no, customer_no |-> customer_no,
     client_sundry_no |-> client_sundry_no]

Segment_toString(g) ==
    Join(<<alphanumeric(g.transaction_code, 3),
           money(g.amount, 10),
           Ok(format(g.payment_date)),
           numeric(g.transit, 9),
           alphanumeric(g.account_no, 12),
           Fill("0", 22),
           Fill("0", 3),
           alphanumeric(g.client_short_name, 15),
           alphanumeric(g.customer_name, 30),
           alphanumeric(g.client_long_name, 30),
           alphanumeric(g.client_no, 10),
           alphanumeric(g.customer_no, 19),
           Fill("0", 9),
           Fill(" ", 12),
           alphanumeric(g.client_sundry_no, 15),
           Fill(" ", 22),
           Fill(" ", 2),
           Fill(" ", 11)>>)

ACHBasicPayment(type, count, client_no, file_no) ==
    [type |-> type, count |-> count, client_no |-> client_no,
     file_no |-> file_no, segments |-> <<>>]

add_segment(b, g) == [b EXCEPT !.segments = Append(@, g)]

\* the type field written as it is, whatever its length
ACHBasicPayment_toString_wideType(b) ==
    Join(<<alphanumeric_unchecked(b.type, 1),
           numeric(b.count, 9),
           alphanumeric(b.client_no, 10),
           alphanumeric(b.file_no, 4)>>
         \o [i \in 1..Len(b.segments) |-> Segment_toString(b.segments[i])])

ACHBasicPayment_toString(b) ==
    Join(<<alphanumeric(b.type, 1),
           numeric(b.count, 9),
           alphanumeric(b.client_no, 10),
           alphanumeric(b.file_no, 4)>>
         \o [i \in 1..Len(b.segments) |-> Segment_toString(b.segments[i])])

ACHTrailer(count, client_no, file_no, debit_amount, debit_count) ==
    [type |-> Str(<<"Z">>), count |-> count, client_no |-> client_no,
     file_no |-> file_no, debit_amount |-> debit_amount,
     debit_count |-> debit_count]

ACHTrailer_toString(z) ==
    Join(<<alphanumeric(z.type, 1),
           numeric(z.count, 9),
           alphanumeric(z.client_no, 10),
           alphanumeric(z.file_no, 4),
           money(z.debit_amount, 14),
           numeric(z.debit_count, 8),
           Fill("0", 4),
           Fill("0", 8),
           Fill("0", 1396)>>)

(***************************************************************************)
(* The worksheet: cell addresses to raw cell values                        *)
(***************************************************************************)
cols == <<"A", "B", "C", "D", "E", "F", "G", "H", "I", "J", "K", "L", "M",
          "N", "O", "P", "Q", "R", "S", "T", "U", "V", "W", "X", "Y", "Z">>

RECURSIVE ColLetters(_)
ColLetters(col) ==
    LET k == col % 27
        here == IF k < 26 THEN <<cols[k + 1]>>
                ELSE <<"u", "n", "d", "e", "f", "i", "n", "e", "d">>
    IN IF col \div 26 = 0 THEN here ELSE ColLetters(col \div 26) \o here

xl_row_col(row, col) == ColLetters(col - 1) \o NatToString(row)

cell(sheet, row, col) ==
    LET a == xl_row_col(row, col)
    IN IF a \notin DOMAIN sheet THEN Null
       ELSE IF sheet[a].t = "num" THEN sheet[a]
       ELSE Str(Trim(sheet[a].s))

(***************************************************************************)
(* State                                                                   *)
(***************************************************************************)
VARIABLES
    fs_in,                \* input files on disk: path -> worksheet
    fs_out,               \* output files on disk: path -> [exists, data, open]
    input_file_path,      \* app.js: the selected input paths
    export_type,          \* app.js: the value of the export-type control
    file_list,            \* app.js: the "Converted input file" lines shown
    fi,                   \* app.js: position of the for loop over the paths
    pc,                   \* where the click handler / writeACHFile stands
    error,                \* the exception that ended the handler, or ""
    worksheet,            \* writeACHFile: the first sheet of the input file
    meta,                 \* writeACHFile: the file-level cells read at the top
    RECORD_COUNT,
    header,
    payment_records,
    r,
    total_debit_amount,
    total_debit_records,
    t,
    wi,                   \* position of the for loop over payment_records
    fmt,                  \* a single Formatter call: [pc, kind, value, width, result]
    component,            \* App.tsx: which App is mounted (0: none)
    inputFiles,           \* App.tsx: useState([])
    recordType,           \* App.tsx: useState("PDS")
    outputDir,            \* App.tsx: useState("")
    response,             \* App.tsx: what the Log shows
    convertCalls,         \* how many times invoke("convert", ...) was called
    convertArgs,          \* the arguments of the last such call
    rejection             \* the exception that ended the last handler, or ""

tauriVars == <<component, inputFiles, recordType, outputDir, response, convertCalls,
               convertArgs, rejection>>

vars == <<fs_in, fs_out, input_file_path, export_type, file_list, fi, pc, error,
          worksheet, meta, RECORD_COUNT, header, payment_records, r,
          total_debit_amount, total_debit_records, t, wi, fmt, tauriVars>>

convVars == <<fs_in, fs_out, input_file_path, export_type, file_list, fi, pc,
              error, worksheet, meta, RECORD_COUNT, header, payment_records, r,
              total_debit_amount, total_debit_records, t, wi>>

(***************************************************************************)
(* Inputs                                                                  *)
(***************************************************************************)
MaxRows == 3
FirstRow == 8
Delimiter_single == <<"\n">>
Delimiter == <<"\n", "\n">>

RowA == <<Str(<<"1", "0", "0", "1">>), Str(<<"A", "L">>), JsInt(3), JsInt(12345),
          Str(<<"7", "7">>), Num(10000), Null>>
RowB == <<JsInt(1002), Str(<<" ", "B", "O", " ">>), JsInt(10), JsInt(20),
          JsInt(5550123), Num(5025), Str(<<"n">>)>>
RowSuspended == <<Str(<<"1", "0", "0", "3">>), Null, Null, Null, Null, Num(999),
                  Str(<<" ", "y", " ">>)>>
RowEnd == <<Null, Str(<<"G", "H", "O", "S", "T">>), JsInt(1), JsInt(1),
            Str(<<"1">>), Num(700), Null>>
RowEndSuspended == <<Str(<<" ", " ">>), Str(<<"G", "H", "O", "S", "T">>), JsInt(1),
                     JsInt(1), Str(<<"1">>), Num(700), Str(<<"y">>)>>
RowZero == <<JsInt(0), Str(<<"Z", "E", "D">>), JsInt(1), JsInt(1), Str(<<"1">>),
             Num(300), Null>>
RowNoBank == <<Str(<<"1", "0", "0", "4">>), Str(<<"C", "Y">>), Null, JsInt(1),
               Str(<<"9">>), Num(100), Null>>
RowWideBranch == <<Str(<<"1", "0", "0", "5">>), Str(<<"D", "I">>), JsInt(1),
                   JsInt(123456), Str(<<"9">>), Num(100), Null>>
RowTextAmount == <<Str(<<"1", "0", "0", "6">>), Str(<<"E", "D">>), JsInt(1), JsInt(1),
                   Str(<<"9">>), Str(<<"1", "2", ".", "5">>), Null>>
RowNoAmount == <<Str(<<"1", "0", "0", "7">>), Str(<<"F", "E">>), JsInt(1), JsInt(1),
                 Str(<<"9">>), Null, Null>>
RowWideName == <<Str(<<"1", "0", "0", "8">>), Str([i \in 1..31 |-> "N"]), JsInt(1),
                 JsInt(1), Str(<<"9">>), Num(100), Null>>
RowCredit == <<Str(<<"1", "0", "0", "9">>), Str(<<"G", "O">>), JsInt(2), JsInt(7),
               Str(<<"8">>), Num(-250), Null>>

CoreRows == {RowA, RowB, RowSuspended, RowEnd, RowEndSuspended}
AllRows == CoreRows \cup {RowZero, RowNoBank, RowWideBranch, RowTextAmount,
                          RowNoAmount, RowWideName, RowCredit}

SeqsUpTo(S, n) == UNION {[1..k -> S] : k \in 0..n}

RowSeqs == SeqsUpTo(CoreRows, MaxRows) \cup SeqsUpTo(AllRows, MaxRows - 1)
FewRowSeqs == {<<>>, <<RowA>>, <<RowSuspended, RowB>>}

\* client name, client number, processing centre, currency code, payment
\* date, transaction code (column B of rows 1 to 6)
GoodMeta == <<Str(<<"A", "C", "M", "E">>), Str(<<"0", "0", "4", "2">>), JsInt(420),
              Str(<<"C", "A", "D">>),
              Str(<<"2", "0", "2", "4", "/", "0", "3", "/", "0", "1">>), JsInt(450)>>
Metas ==
    {GoodMeta,
     [GoodMeta EXCEPT ![5] = Str(<<"s", "o", "o", "n">>)],
     [GoodMeta EXCEPT ![5] = Str(<<"1", "9", "9", "9", "/", "1", "2", "/", "3", "1">>)],
     [GoodMeta EXCEPT ![2] = Str([i \in 1..11 |-> "9"])],
     [GoodMeta EXCEPT ![2] = JsInt(77)]}
     \cup {[GoodMeta EXCEPT ![i] = Null] : i \in 1..6}

Modes == {<<"C">>, <<"D">>, <<"P", "D", "S">>, <<"P", "A", "D">>}

\* the worksheet holding `m` in B1..B6 and `rows` from row 8 on; an absent
\* cell has no address
MakeSheet(m, rows) ==
    LET cells == {<<xl_row_col(i, 2), m[i]>> : i \in 1..6}
                 \cup {<<xl_row_col(FirstRow - 1 + i, j), rows[i][j]>> :
                          i \in 1..Len(rows), j \in 1..7}
        present == {p \in cells : p[2] # Null}
    IN [a \in {p[1] : p \in present} |-> (CHOOSE p \in present : p[1] = a)[2]]

Inputs ==
    {[rows |-> rs, meta |-> GoodMeta, mode |-> <<"D">>] : rs \in RowSeqs}
    \cup {[rows |-> rs, meta |-> m, mode |-> md] :
             rs \in FewRowSeqs, m \in Metas, md \in Modes}

IsSuspendedRow(row) ==
    /\ ~Falsy(IF row[1].t = "str" THEN Str(Trim(row[1].s)) ELSE row[1])
    /\ row[7].t = "str" /\ Trim(row[7].s) = <<"y">>

DeleteSuspended(rows) == SelectSeq(rows, LAMBDA row : ~IsSuspendedRow(row))

PathA == <<"a", ".", "c", "s", "v">>
PathB == <<"b", ".", "c", "s", "v">>

\* s.split(".")[0]
BeforeDot(s) ==
    IF \E i \in 1..Len(s) : s[i] = "."
    THEN SubSeq(s, 1, (CHOOSE i \in 1..Len(s) :
                          s[i] = "." /\ \A j \in 1..(i - 1) : s[j] # ".") - 1)
    ELSE s

\* the output file's name inside the chosen output directory
OutPath(fpath) == BeforeDot(fpath) \o <<".", "t", "x", "t">>

NoFile == [exists |-> FALSE, open |-> FALSE, data |-> <<>>]
\* a file left at the output path by an earlier conversion
OldFile == [exists |-> TRUE, open |-> FALSE, data |-> <<<<"o", "l", "d">>>>]
OldFiles(x) == IF x.rows \in FewRowSeqs THEN {NoFile, OldFile} ELSE {NoFile}
\* the rows of a second, unrelated file converted by the same click
SecondRowSeqs == {<<>>, <<RowA>>, <<RowB, RowCredit>>}
NoFmt == [pc |-> "off", kind |-> "", value |-> Null, width |-> 0, result |-> Ok(<<>>)]
NoRecord == [type |-> Null]

MaxWidth == 6

FmtKinds == {"alphanumeric", "numeric", "money"}
FmtWidths == (0..MaxWidth) \cup {9, 10, 14}
FmtValues ==
    {Null, Str(<<>>), Str(<<"A">>), Str(<<"A", "B", "C">>),
     Str(<<"A", "B", "C", "D", "E", "F", "G">>), Str(<<"1", "2", ".", "5">>),
     Num(0), Num(5), Num(50), Num(123450), Num(1005), Num(99999), Num(100000),
     Num(-150), JsInt(1), JsInt(7), JsInt(12345), JsInt(9999), JsInt(10000),
     JsInt(1234567)}

\* the state when the convert button is clicked, one of `ins` being selected
InitFiles(ins) ==
    /\ \E x \in ins :
         /\ export_type = x.mode
         /\ \/ /\ input_file_path = <<PathA>>
               /\ fs_in = [p \in {PathA} |-> MakeSheet(x.meta, x.rows)]
            \/ /\ DeleteSuspended(x.rows) # x.rows
               /\ input_file_path = <<PathA, PathB>>
               /\ fs_in = [p \in {PathA, PathB} |->
                             IF p = PathA THEN MakeSheet(x.meta, x.rows)
                             ELSE MakeSheet(x.meta, DeleteSuspended(x.rows))]
            \/ /\ x.meta = GoodMeta /\ x.mode = <<"D">> /\ Len(x.rows) <= 1
               /\ input_file_path = <<PathA, PathB>>
               /\ \E y \in SecondRowSeqs :
                     fs_in = [p \in {PathA, PathB} |->
                                IF p = PathA THEN MakeSheet(x.meta, x.rows)
                                ELSE MakeSheet(GoodMeta, y)]
         /\ \E old \in OldFiles(x) :
               fs_out = [p \in {OutPath(PathA), OutPath(PathB)} |->
                           IF p = OutPath(PathA) THEN old ELSE NoFile]
    /\ file_list = <<>>
    /\ fi = 1
    /\ pc = "next"
    /\ error = ""
    /\ worksheet = <<>>
    /\ meta = <<>>
    /\ RECORD_COUNT = 0
    /\ header = NoRecord
    /\ payment_records = <<>>
    /\ r = 0
    /\ total_debit_amount = Null
    /\ total_debit_records = 0
    /\ t = NoRecord
    /\ wi = 0
    /\ fmt = NoFmt

InitConvert == InitFiles(Inputs)

InitFormatter ==
    /\ fs_in = <<>>
    /\ fs_out = <<>>
    /\ input_file_path = <<>>
    /\ export_type = <<>>
    /\ file_list = <<>>
    /\ fi = 1
    /\ pc = "off"
    /\ error = ""
    /\ worksheet = <<>>
    /\ meta = <<>>
    /\ RECORD_COUNT = 0
    /\ header = NoRecord
    /\ payment_records = <<>>
    /\ r = 0
    /\ total_debit_amount = Null
    /\ total_debit_records = 0
    /\ t = NoRecord
    /\ wi = 0
    /\ \E k \in FmtKinds, v \in FmtValues, w \in FmtWidths :
         fmt = [pc |-> "call", kind |-> k, value |-> v, width |-> w, result |-> Ok(<<>>)]

NoCall == [filename |-> <<>>, recordType |-> "", outputDirectory |-> Null]

\* no Tauri window is open
TauriOff ==
    /\ component = 0
    /\ inputFiles = <<>>
    /\ recordType = ""
    /\ outputDir = Null
    /\ response = <<>>
    /\ convertCalls = 0
    /\ convertArgs = NoCall
    /\ rejection = ""

Init == (InitConvert \/ InitFormatter) /\ TauriOff

(***************************************************************************)
(* app.js: the convert button's handler                                    *)
(***************************************************************************)
fpath == input_file_path[fi]
outFile == OutPath(fpath)

\* for (let fpath of input_file_path) { ... writeACHFile(fpath, outPath, export_type)
NextFile ==
    /\ pc = "next"
    /\ fi <= Len(input_file_path)
    /\ pc' = "Start"
    /\ UNCHANGED <<fs_in, fs_out, input_file_path, export_type, file_list, fi, error,
                   worksheet, meta, RECORD_COUNT, header, payment_records, r,
                   total_debit_amount, total_debit_records, t, wi, fmt, tauriVars>>

\* after the loop the selections are cleared
Finish ==
    /\ pc = "next"
    /\ fi > Len(input_file_path)
    /\ input_file_path' = <<>>
    /\ pc' = "finished"
    /\ UNCHANGED <<fs_in, fs_out, export_type, file_list, fi, error,
                   worksheet, meta, RECORD_COUNT, header, payment_records, r,
                   total_debit_amount, total_debit_records, t, wi, fmt, tauriVars>>

(***************************************************************************)
(* writeACHFile(xlFile, outFile, mode)                                     *)
(***************************************************************************)
\* the sheet is read and the file-level cells are fetched
ReadMetadata ==
    /\ pc = "Start"
    /\ worksheet' = fs_in[fpath]
    /\ RECORD_COUNT' = 1
    /\ meta' = [client_name |-> cell(worksheet', 1, 2),
                client_no |-> cell(worksheet', 2, 2),
                processing_centre |-> cell(worksheet', 3, 2),
                currency_code |-> cell(worksheet', 4, 2),
                payment_date |-> cell(worksheet', 5, 2),
                payment_moment |-> moment(cell(worksheet', 5, 2)),
                transaction_code |-> cell(worksheet', 6, 2)]
    /\ pc' = "EmittingHeader"
    /\ UNCHANGED <<fs_in, fs_out, input_file_path, export_type, file_list, fi, error,
                   header, payment_records, r, total_debit_amount,
                   total_debit_records, t, wi, fmt, tauriVars>>

\* the accumulators kept across calls instead of being declared in the call
BuildHeader_sharedTotals ==
    /\ pc = "EmittingHeader"
    /\ header' = ACHHeader(JsInt(RECORD_COUNT), meta.client_no, JsInt(RECORD_COUNT),
                           meta.processing_centre, meta.currency_code)
    /\ RECORD_COUNT' = RECORD_COUNT + 1
    /\ payment_records' = <<>>
    /\ r' = FirstRow
    /\ total_debit_amount' = IF total_debit_amount = Null THEN Num(0)
                             ELSE total_debit_amount
    /\ total_debit_records' = total_debit_records
    /\ t' = NoRecord
    /\ wi' = 0
    /\ pc' = "EmittingDetails"
    /\ UNCHANGED <<fs_in, fs_out, input_file_path, export_type, file_list, fi, error,
                   worksheet, meta, fmt, tauriVars>>

BuildHeader ==
    /\ pc = "EmittingHeader"
    /\ header' = ACHHeader(JsInt(RECORD_COUNT), meta.client_no, JsInt(RECORD_COUNT),
                           meta.processing_centre, meta.currency_code)
    /\ RECORD_COUNT' = RECORD_COUNT + 1
    /\ payment_records' = <<>>
    /\ r' = FirstRow
    /\ total_debit_amount' = Num(0)
    /\ total_debit_records' = 0
    /\ t' = NoRecord
    /\ wi' = 0
    /\ pc' = "EmittingDetails"
    /\ UNCHANGED <<fs_in, fs_out, input_file_path, export_type, file_list, fi, error,
                   worksheet, meta, fmt, tauriVars>>

customer_no == cell(worksheet, r, 1)
customer_name == cell(worksheet, r, 2)
bank == cell(worksheet, r, 3)
branch == cell(worksheet, r, 4)
account == cell(worksheet, r, 5)
amount == cell(worksheet, r, 6)
suspend == cell(worksheet, r, 7)

\* suspend == "y"
IsSuspended(v) == v.t = "str" /\ v.s = <<"y">>

RowVerdict_neverSkip(cust, susp) ==
    IF Falsy(cust) THEN "end" ELSE "accept"

RowVerdict_suspendFirst(cust, susp) ==
    IF IsSuspended(susp) THEN "skip"
    ELSE IF Falsy(cust) THEN "end"
    ELSE "accept"

\* the two tests at the top of the loop body, in their order
RowVerdict(cust, susp) ==
    IF Falsy(cust) THEN "end"
    ELSE IF IsSuspended(susp) THEN "skip"
    ELSE "accept"

\* if (!customer_no) break;
RowEndOfData ==
    /\ pc = "EmittingDetails"
    /\ RowVerdict(customer_no, suspend) = "end"
    /\ pc' = "EmittingTrailer"
    /\ UNCHANGED <<fs_in, fs_out, input_file_path, export_type, file_list, fi, error,
                   worksheet, meta, RECORD_COUNT, header, payment_records, r,
                   total_debit_amount, total_debit_records, t, wi, fmt, tauriVars>>

RowSuspend_counting ==
    /\ pc = "EmittingDetails"
    /\ RowVerdict(customer_no, suspend) = "skip"
    /\ r' = r + 1
    /\ RECORD_COUNT' = RECORD_COUNT + 1
    /\ UNCHANGED <<fs_in, fs_out, input_file_path, export_type, file_list, fi, pc,
                   error, worksheet, meta, header, payment_records,
                   total_debit_amount, total_debit_records, t, wi, fmt, tauriVars>>

\* `continue` taken without advancing the row
RowSuspend_stuck ==
    /\ pc = "EmittingDetails"
    /\ RowVerdict(customer_no, suspend) = "skip"
    /\ UNCHANGED vars

\* if (suspend == "y") { r++; continue; }
RowSuspend ==
    /\ pc = "EmittingDetails"
    /\ RowVerdict(customer_no, suspend) = "skip"
    /\ r' = r + 1
    /\ UNCHANGED <<fs_in, fs_out, input_file_path, export_type, file_list, fi, pc,
                   error, worksheet, meta, RECORD_COUNT, header, payment_records,
                   total_debit_amount, total_debit_records, t, wi, fmt, tauriVars>>

\* the transit number is rendered while the row is read; a throw ends the call
RowAccept ==
    /\ pc = "EmittingDetails"
    /\ RowVerdict(customer_no, suspend) = "accept"
    /\ LET b == ACHBasicPayment(Str(export_type), JsInt(RECORD_COUNT), meta.client_no,
                                JsInt(RECORD_COUNT))
           transit == Join(<<numeric(bank, 4), numeric(branch, 5)>>)
           g == Segment(meta.transaction_code, amount, meta.payment_moment,
                        Str(transit.s), account, Str(<<>>), customer_name,
                        meta.client_name, meta.client_no, customer_no, Str(<<>>))
       IN IF transit.ok
          THEN /\ RECORD_COUNT' = RECORD_COUNT + 1
               /\ r' = r + 1
               /\ total_debit_amount' = JsAdd(total_debit_amount, amount)
               /\ total_debit_records' = total_debit_records + 1
               /\ payment_records' = Append(payment_records, add_segment(b, g))
               /\ UNCHANGED <<pc, error>>
          ELSE /\ pc' = "failed"
               /\ error' = transit.err
               /\ UNCHANGED <<RECORD_COUNT, r, total_debit_amount,
                              total_debit_records, payment_records>>
    /\ UNCHANGED <<fs_in, fs_out, input_file_path, export_type, file_list, fi,
                   worksheet, meta, header, t, wi, fmt, tauriVars>>

BuildTrailer ==
    /\ pc = "EmittingTrailer"
    /\ t' = ACHTrailer(JsInt(RECORD_COUNT), meta.client_no, JsInt(RECORD_COUNT),
                       total_debit_amount, JsInt(total_debit_records))
    /\ pc' = "Open"
    /\ UNCHANGED <<fs_in, fs_out, input_file_path, export_type, file_list, fi, error,
                   worksheet, meta, RECORD_COUNT, header, payment_records, r,
                   total_debit_amount, total_debit_records, wi, fmt, tauriVars>>

\* fs.openSync(outFile, "w") creates or truncates the file
OpenOutput ==
    /\ pc = "Open"
    /\ fs_out' = [fs_out EXCEPT ![outFile] = [exists |-> TRUE, open |-> TRUE, data |-> <<>>]]
    /\ pc' = "WriteHeader"
    /\ UNCHANGED <<fs_in, input_file_path, export_type, file_list, fi, error,
                   worksheet, meta, RECORD_COUNT, header, payment_records, r,
                   total_debit_amount, total_debit_records, t, wi, fmt, tauriVars>>

writeSync(f, text) == [f EXCEPT !.data = Append(@, text)]

WriteHeader ==
    /\ pc = "WriteHeader"
    /\ LET txt == ACHHeader_toString(header)
       IN IF txt.ok
          THEN /\ fs_out' = [fs_out EXCEPT
                               ![outFile] = writeSync(writeSync(@, txt.s), Delimiter)]
               /\ wi' = 1
               /\ pc' = "WriteDetails"
               /\ UNCHANGED error
          ELSE /\ pc' = "failed"
               /\ error' = txt.err
               /\ UNCHANGED <<fs_out, wi>>
    /\ UNCHANGED <<fs_in, input_file_path, export_type, file_list, fi,
                   worksheet, meta, RECORD_COUNT, header, payment_records, r,
                   total_debit_amount, total_debit_records, t, fmt, tauriVars>>

\* for (let rec of payment_records) { write rec; write "\n\n" }
WriteDetail ==
    /\ pc = "WriteDetails"
    /\ wi <= Len(payment_records)
    /\ LET txt == ACHBasicPayment_toString(payment_records[wi])
       IN IF txt.ok
          THEN /\ fs_out' = [fs_out EXCEPT
                               ![outFile] = writeSync(writeSync(@, txt.s), Delimiter)]
               /\ wi' = wi + 1
               /\ UNCHANGED <<pc, error>>
          ELSE /\ pc' = "failed"
               /\ error' = txt.err
               /\ UNCHANGED <<fs_out, wi>>
    /\ UNCHANGED <<fs_in, input_file_path, export_type, file_list, fi,
                   worksheet, meta, RECORD_COUNT, header, payment_records, r,
                   total_debit_amount, total_debit_records, t, fmt, tauriVars>>

\* the trailer is written, the file closed, and app.js reports the file
WriteTrailer ==
    /\ pc = "WriteDetails"
    /\ wi > Len(payment_records)
    /\ LET txt == ACHTrailer_toString(t)
       IN IF txt.ok
          THEN /\ fs_out' = [fs_out EXCEPT
                               ![outFile] = [writeSync(@, txt.s) EXCEPT !.open = FALSE]]
               /\ file_list' = Append(file_list, [from |-> fpath, to |-> outFile])
               /\ fi' = fi + 1
               /\ pc' = "next"
               /\ UNCHANGED error
          ELSE /\ pc' = "failed"
               /\ error' = txt.err
               /\ UNCHANGED <<fs_out, file_list, fi>>
    /\ UNCHANGED <<fs_in, input_file_path, export_type,
                   worksheet, meta, RECORD_COUNT, header, payment_records, r,
                   total_debit_amount, total_debit_records, t, wi, fmt, tauriVars>>

(***************************************************************************)
(* A single call of a Formatter function on a value and a width            *)
(***************************************************************************)
FormatterCall ==
    /\ fmt.pc = "call"
    /\ fmt' = [fmt EXCEPT
                 !.pc = "returned",
                 !.result = IF fmt.kind = "alphanumeric"
                            THEN alphanumeric(fmt.value, fmt.width)
                            ELSE IF fmt.kind = "numeric"
                            THEN numeric(fmt.value, fmt.width)
                            ELSE money(fmt.value, fmt.width)]
    /\ UNCHANGED <<convVars, tauriVars>>

Next ==
    \/ FormatterCall
    \/ NextFile
    \/ Finish
    \/ ReadMetadata
    \/ BuildHeader
    \/ RowEndOfData
    \/ RowSuspend
    \/ RowAccept
    \/ BuildTrailer
    \/ OpenOutput
    \/ WriteHeader
    \/ WriteDetail
    \/ WriteTrailer

Spec == Init /\ [][Next]_vars

\* The row loop under the scheduling of the handler: synchronous code run to
\* completion, so a loop step that can be taken is taken.
TermRows == {RowA, RowSuspended, RowEnd}
TermInputs == {[rows |-> rs, meta |-> GoodMeta, mode |-> <<"D">>] :
                  rs \in SeqsUpTo(TermRows, MaxRows)
                          \cup {<<RowNoBank>>, <<RowSuspended, RowNoBank>>}}
InitTerm ==
    /\ \/ InitFiles(TermInputs)
       \/ InitFormatter /\ fmt.kind = "numeric" /\ fmt.width = 0
    /\ TauriOff
LoopStep == RowEndOfData \/ RowSuspend \/ RowAccept
TermSpec == InitTerm /\ [][Next]_vars /\ WF_vars(LoopStep)

(***************************************************************************)
(* Properties of the Formatter                                             *)
(***************************************************************************)
Returned(kind) == fmt.pc = "returned" /\ fmt.kind = kind

ZeroPadded(digits, width) == [i \in 1..(width - Len(digits)) |-> "0"] \o digits
SpacePadded(txt, width) == txt \o [i \in 1..(width - Len(txt)) |-> " "]

\* the text of a value before any padding
Natural(kind, v) ==
    IF kind = "money" THEN ReplaceFirst(ToFixed2(v.c), ".")
    ELSE IF v.t = "num" THEN NumToString(v.c) ELSE v.s

HasNatural(kind, v) == IF kind = "money" THEN v.t = "num" ELSE v.t # "null"

C8_FieldWidth ==
    /\ fmt.pc = "returned" =>
         /\ fmt.result.ok => Len(fmt.result.s) = fmt.width
         /\ HasNatural(fmt.kind, fmt.value) =>
              LET nat == Natural(fmt.kind, fmt.value)
              IN /\ Len(nat) > fmt.width => ~fmt.result.ok
                 /\ Len(nat) = fmt.width => fmt.result.ok /\ fmt.result.s = nat
                 /\ Len(nat) < fmt.width => fmt.result.ok
    /\ \A o \in DOMAIN fs_out :
         \A k \in 1..Len(fs_out[o].data) :
            LET chunk == fs_out[o].data[k]
            IN /\ chunk[1] = "A" => Len(chunk) = 1 + 9 + 10 + 4 + 5 + 20 + 3
               /\ chunk[1] = "Z" => Len(chunk) = 1 + 9 + 10 + 4 + 14 + 8 + 4 + 8 + 1396

C8_Witness ==
    /\ Returned("numeric") /\ fmt.value = JsInt(12345) /\ fmt.width = 5
    /\ fmt.result = Ok(<<"1", "2", "3", "4", "5">>)

C8_WitnessOverflow ==
    Returned("alphanumeric") /\ fmt.value = JsInt(10000) /\ fmt.width = 4 /\ ~fmt.result.ok

\* C9 as stated: alphanumeric returns a value longer than n unpadded, without
\* raising an error, and a value of length at most n right-padded with spaces
\* to exactly n characters.
C9_Original ==
    (Returned("alphanumeric") /\ fmt.value.t # "null") =>
        LET w == Natural("alphanumeric", fmt.value)
        IN /\ fmt.result.ok
           /\ fmt.result.s = IF Len(w) > fmt.width THEN w ELSE SpacePadded(w, fmt.width)

\* C9 amended: alphanumeric raises an error (the RangeError of String.repeat
\* with a negative count) and returns nothing for a value longer than n, and
\* returns a value of length at most n right-padded with spaces to exactly n
\* characters.
C9_AlphanumericOverflow ==
    (Returned("alphanumeric") /\ fmt.value.t # "null") =>
        LET w == Natural("alphanumeric", fmt.value)
        IN IF Len(w) > fmt.width
           THEN ~fmt.result.ok /\ fmt.result.err = "RangeError"
           ELSE fmt.result.ok /\ fmt.result.s = SpacePadded(w, fmt.width)

C9_Witness ==
    /\ Returned("alphanumeric")
    /\ fmt.value = Str(<<"A", "B", "C", "D", "E", "F", "G">>)
    /\ fmt.width = 6
    /\ fmt.result = Throw("RangeError")

(***************************************************************************)
(* Properties of writeACHFile                                              *)
(***************************************************************************)
RawCell(sheet, row, col) ==
    IF xl_row_col(row, col) \in DOMAIN sheet THEN sheet[xl_row_col(row, col)] ELSE Null

\* the rows of a sheet from row 8 down to the last row holding any cell
RowsOf(sheet) ==
    LET used == {i \in 1..Cardinality(DOMAIN sheet) :
                   \E j \in 1..7 : xl_row_col(FirstRow - 1 + i, j) \in DOMAIN sheet}
        n == IF used = {} THEN 0 ELSE CHOOSE i \in used : \A k \in used : k <= i
    IN [i \in 1..n |-> [j \in 1..7 |-> RawCell(sheet, FirstRow - 1 + i, j)]]

MetaOf(sheet) == [i \in 1..6 |-> RawCell(sheet, i, 2)]

\* the first row, from `row` on, whose customer number is absent or empty
RECURSIVE FirstEmpty(_, _)
FirstEmpty(sheet, row) ==
    IF cell(sheet, row, 1) \in {Null, Str(<<>>)} THEN row
    ELSE FirstEmpty(sheet, row + 1)

\* the accepted rows from `row` on: those consumed before end-of-data whose
\* suspend flag is not "y"
RECURSIVE AcceptedFrom(_, _)
AcceptedFrom(sheet, row) ==
    IF Falsy(cell(sheet, row, 1)) THEN <<>>
    ELSE IF cell(sheet, row, 7) = Str(<<"y">>) THEN AcceptedFrom(sheet, row + 1)
    ELSE <<row>> \o AcceptedFrom(sheet, row + 1)

RECURSIVE SumCents(_, _)
SumCents(sheet, rws) ==
    IF rws = <<>> THEN 0
    ELSE cell(sheet, rws[1], 6).c + SumCents(sheet, Tail(rws))

\* the records of an output file: every other write, the rest being delimiters
Records(data) == [k \in 1..((Len(data) + 1) \div 2) |-> data[2 * k - 1]]
SeqNo(rec) == ParseNat(SubSeq(rec, 2, 10))
IsDetail(chunk) == chunk[1] \notin {"A", "Z", "\n"}
Converted == {file_list[i] : i \in 1..Len(file_list)}
Running == pc \in {"EmittingDetails", "EmittingTrailer", "Open", "WriteHeader",
                   "WriteDetails"}
TrailerBuilt == pc \in {"Open", "WriteHeader", "WriteDetails"}

\* C1: in every completed output the sequence numbers are 1 for the Header and
\* rise by exactly 1 per record through the Trailer, whose number is 2 plus
\* the number of accepted rows.
C1_SequenceNumbers ==
    \A e \in Converted :
       LET recs == Records(fs_out[e.to].data)
           n == Len(AcceptedFrom(fs_in[e.from], FirstRow))
       IN /\ Len(recs) = n + 2
          /\ recs[1][1] = "A" /\ SeqNo(recs[1]) = 1
          /\ \A k \in 2..Len(recs) : SeqNo(recs[k]) = SeqNo(recs[k - 1]) + 1
          /\ recs[Len(recs)][1] = "Z" /\ SeqNo(recs[Len(recs)]) = 2 + n

C1_Witness ==
    \E e \in Converted :
       /\ Len(AcceptedFrom(fs_in[e.from], FirstRow)) = 2
       /\ \E row \in FirstRow..(FirstRow + 2) : cell(fs_in[e.from], row, 7) = Str(<<"y">>)
       /\ SeqNo(fs_out[e.to].data[Len(fs_out[e.to].data)]) = 4

C2_WitnessEmpty ==
    pc = "Open" /\ t.debit_amount = Num(0) /\ t.debit_count = JsInt(0)

\* C3: a row with a customer number whose suspend flag is "y" adds no Detail
\* record and leaves the sequence counter, the running total and the running
\* count as they were, only the row index advancing; a sheet and the same
\* sheet with its suspended rows deleted convert to the same output.
C3_Frame ==
    (pc = "EmittingDetails" /\ ~Falsy(customer_no) /\ suspend = Str(<<"y">>))
    => /\ r' = r + 1
       /\ UNCHANGED <<RECORD_COUNT, total_debit_amount, total_debit_records,
                      payment_records, fs_out, pc>>

C3_SameOutput ==
    (/\ Len(file_list) = 2
     /\ fs_in[PathB] = MakeSheet(MetaOf(fs_in[PathA]),
                                 DeleteSuspended(RowsOf(fs_in[PathA]))))
    => fs_out[OutPath(PathA)].data = fs_out[OutPath(PathB)].data

\* C3: every step taken at a suspended row changes the row index alone, and
\* deleting the suspended rows of a sheet never changes its output.
C3_SuspendedRows == [][C3_Frame]_vars /\ []C3_SameOutput

C3_Witness ==
    /\ Len(file_list) = 2
    /\ fs_in[PathB] # fs_in[PathA]
    /\ fs_in[PathB] = MakeSheet(MetaOf(fs_in[PathA]),
                                DeleteSuspended(RowsOf(fs_in[PathA])))
    /\ Len(fs_out[OutPath(PathA)].data) = 7
    /\ cell(fs_in[PathA], FirstRow + 1, 7) = Str(<<"y">>)

\* C4: the first row whose customer number is absent or empty ends the row
\* loop: the row index never passes it, the step taken at it goes to the
\* Trailer without touching the counter, the totals or the records, even when
\* that row's suspend flag is "y", and every Detail record stems from a row
\* before it.
C4_Step ==
    /\ Running' =>
         LET e == FirstEmpty(worksheet', FirstRow)
         IN /\ r' <= e
            /\ Len(payment_records') <= r' - FirstRow
            /\ total_debit_records' = Len(payment_records')
            /\ \A k \in 1..Len(payment_records') :
                  \E row \in FirstRow..(e - 1) :
                     payment_records'[k].segments[1].customer_no = cell(worksheet', row, 1)
    /\ (pc = "EmittingDetails" /\ r = FirstEmpty(worksheet, FirstRow))
       => /\ pc' = "EmittingTrailer"
          /\ UNCHANGED <<r, RECORD_COUNT, total_debit_amount, total_debit_records,
                         payment_records, fs_out>>

\* C4: every step keeps the row loop at or before the first row without a
\* customer number, and the step at that row goes straight to the Trailer.
C4_EndOfData == [][C4_Step]_vars

C4_Witness ==
    /\ pc = "EmittingTrailer"
    /\ r = FirstEmpty(worksheet, FirstRow)
    /\ cell(worksheet, r, 7) = Str(<<"y">>)
    /\ ~Falsy(cell(worksheet, r + 1, 1))
    /\ Len(payment_records) = 1

DateLen(sheet) == IF moment(cell(sheet, 5, 2)).valid THEN 6 ELSE 12
SegmentRest == 3 + 10 + 9 + 12 + 22 + 3 + 15 + 30 + 30 + 10 + 19 + 9 + 12 + 15 + 22 + 2 + 11
\* the Detail records written to the output of `p` (a file left by an earlier
\* conversion holds none of this run's records)
Details(p) ==
    IF fs_out[OutPath(p)] = OldFile THEN {}
    ELSE {k \in 1..Len(fs_out[OutPath(p)].data) : IsDetail(fs_out[OutPath(p)].data[k])}

\* C5 as stated: every emitted Detail record is 24 + 241 = 265 characters long,
\* the payment date taking 7 of them.
C5_Original ==
    \A p \in DOMAIN fs_in : \A k \in Details(p) :
       Len(fs_out[OutPath(p)].data[k]) = 1 + 9 + 10 + 4 + SegmentRest + 7

\* C5 amended: every emitted Detail record is 24 characters of envelope plus
\* the segment's declared widths with the payment date as rendered: 6
\* characters ("0", two-digit year, three-digit day of year) for a payment
\* date that parses, 240 per segment and 264 for the record, and the 12
\* characters "Invalid date" (270 for the record) for one that does not.
C5_DetailLength ==
    \A p \in DOMAIN fs_in : \A k \in Details(p) :
       /\ Len(fs_out[OutPath(p)].data[k]) = 1 + 9 + 10 + 4 + SegmentRest + DateLen(fs_in[p])
       /\ DateLen(fs_in[p]) = 6 => Len(fs_out[OutPath(p)].data[k]) = 264

C5_Witness ==
    /\ pc = "WriteDetails"
    /\ export_type = <<"C">>
    /\ \E k \in Details(PathA) :
       /\ SubSeq(fs_out[OutPath(PathA)].data[k], 38, 43) = <<"0", "2", "4", "0", "6", "1">>
       /\ Len(fs_out[OutPath(PathA)].data[k]) = 264

\* C6: a completed output is one Header, then one Detail record per accepted
\* row in row order, then one Trailer, consecutive records being separated by
\* exactly two newlines and nothing following the Trailer.
C6_OutputShape ==
    \A e \in Converted :
       LET data == fs_out[e.to].data
           acc == AcceptedFrom(fs_in[e.from], FirstRow)
           at == 1 + 9 + 10 + 4 + 3 + 10 + DateLen(fs_in[e.from]) + 9 + 12 + 22 + 3
                   + 15 + 30 + 30 + 10
       IN /\ Len(data) = 2 * Len(acc) + 3
          /\ ~fs_out[e.to].open
          /\ data[1][1] = "A"
          /\ data[Len(data)][1] = "Z"
          /\ \A k \in 1..Len(data) :
                /\ k % 2 = 0 => data[k] = <<"\n", "\n">>
                /\ k % 2 = 1 => \A i \in 1..Len(data[k]) : data[k][i] # "\n"
                /\ (k % 2 = 1 /\ 1 < k /\ k < Len(data)) =>
                      /\ <<data[k][1]>> = export_type
                      /\ Str(Trim(SubSeq(data[k], at + 1, at + 19))) =
                            Str(JsToString(cell(fs_in[e.from], acc[(k - 1) \div 2], 1)).s)

C6_Witness ==
    \E e \in Converted :
       /\ Len(fs_out[e.to].data) = 7
       /\ cell(fs_in[e.from], FirstRow, 1) = Str(<<"1", "0", "0", "1">>)
       /\ cell(fs_in[e.from], FirstRow + 1, 1) = JsInt(1002)

C6_WitnessEmpty ==
    \E e \in Converted : Len(fs_out[e.to].data) = 3

\* whether a cell renders in a field of `width` characters
Fits(v, width) == v.t # "null" /\ Len(Natural("alphanumeric", v)) <= width
MoneyFits(v, width) == v.t = "num" /\ Len(Natural("money", v)) <= width

MetaRenders(sheet, mode) ==
    /\ Len(mode) <= 1
    /\ Fits(cell(sheet, 1, 2), 30)
    /\ Fits(cell(sheet, 2, 2), 10)
    /\ Fits(cell(sheet, 3, 2), 5)
    /\ Fits(cell(sheet, 4, 2), 3)
    /\ Fits(cell(sheet, 6, 2), 3)

TransitRenders(sheet, row) ==
    Fits(cell(sheet, row, 3), 4) /\ Fits(cell(sheet, row, 4), 5)

RowRenders(sheet, row) ==
    /\ TransitRenders(sheet, row)
    /\ Fits(cell(sheet, row, 1), 19)
    /\ Fits(cell(sheet, row, 2), 30)
    /\ Fits(cell(sheet, row, 5), 12)
    /\ MoneyFits(cell(sheet, row, 6), 10)

\* C10 as stated: a row with a customer number and a suspend flag other than
\* "y" never makes the conversion fail, whatever its other cells hold, and
\* yields exactly one Detail record.
C10_Original ==
    /\ (pc = "failed" /\ MetaRenders(worksheet, export_type)) => FALSE
    /\ \A e \in Converted :
          Cardinality(Details(e.from)) = Len(AcceptedFrom(fs_in[e.from], FirstRow))

\* C10 amended: such a row is never skipped or silently dropped, and it
\* yields exactly one Detail record in every conversion that completes; but a
\* row whose cells cannot be rendered makes the whole conversion fail: an
\* absent or over-wide bank or branch number while the row is read, before the
\* output is opened, and an absent, non-numeric or over-wide amount or an
\* absent or over-wide name, account or customer number once the records are
\* written.
C10_RowsAcceptedOrFatal ==
    /\ pc \in {"EmittingTrailer", "Open", "WriteHeader", "WriteDetails"} =>
          LET acc == AcceptedFrom(worksheet, FirstRow)
          IN /\ Len(payment_records) = Len(acc)
             /\ \A k \in 1..Len(acc) : TransitRenders(worksheet, acc[k])
    /\ (pc = "failed" /\ ~fs_out[outFile].exists) =>
          \E row \in FirstRow..r :
             /\ RowVerdict(cell(worksheet, row, 1), cell(worksheet, row, 7)) = "accept"
             /\ ~TransitRenders(worksheet, row)
    /\ \A e \in Converted :
          LET acc == AcceptedFrom(fs_in[e.from], FirstRow)
          IN /\ Cardinality(Details(e.from)) = Len(acc)
             /\ \A k \in 1..Len(acc) : RowRenders(fs_in[e.from], acc[k])

C10_Witness ==
    /\ pc = "failed" /\ error = "TypeError"
    /\ MetaRenders(worksheet, export_type)
    /\ ~Falsy(customer_no) /\ bank = Null
    /\ Len(payment_records) = 1
    /\ ~fs_out[outFile].exists

(***************************************************************************)
(* Absent file-level cells                                                 *)
(***************************************************************************)
\* some cell of B1..B6 has no value
MetaAbsent(sheet) == \E i \in 1..6 : RawCell(sheet, i, 2) = Null

\* the call of writeACHFile for the current file has begun and not returned
InCall == pc \in {"EmittingHeader", "EmittingDetails", "EmittingTrailer", "Open",
                  "WriteHeader", "WriteDetails", "failed"}

\* C11: a sheet with an absent file-level cell is never converted to a
\* completed output, and while (and after) it is processed no record is
\* written to its output file.
C11_Original ==
    /\ \A e \in Converted : ~MetaAbsent(fs_in[e.from])
    /\ (InCall /\ MetaAbsent(worksheet)) =>
          \/ fs_out[outFile] \in {NoFile, OldFile}
          \/ fs_out[outFile].data = <<>>

\* the sheet without a payment date is converted, "Invalid date" standing in
\* every Detail record
C11_DateAbsentCompletes ==
    \E e \in Converted :
       /\ RawCell(fs_in[e.from], 5, 2) = Null
       /\ Len(fs_out[e.to].data) = 5
       /\ SubSeq(fs_out[e.to].data[3], 38, 49) = format(InvalidMoment)

\* the sheet without a client name fails after the Header has been written
C11_HeaderThenFailure ==
    /\ pc = "failed" /\ error = "TypeError"
    /\ RawCell(worksheet, 1, 2) = Null
    /\ Len(fs_out[outFile].data) = 2
    /\ fs_out[outFile].data[1][1] = "A"
    /\ fs_out[outFile].open

(***************************************************************************)
(* The output file after a failed conversion                               *)
(***************************************************************************)
\* a closed file holding a Header, Detail records and a Trailer, delimiters
\* between them
Complete(f) ==
    /\ f.exists /\ ~f.open
    /\ Len(f.data) >= 3 /\ Len(f.data) % 2 = 1
    /\ f.data[1][1] = "A"
    /\ f.data[Len(f.data)][1] = "Z"
    /\ \A k \in 1..Len(f.data) : k % 2 = 0 <=> f.data[k] = Delimiter

\* C12: after a failed call of writeACHFile from the click handler the output
\* path does not exist, or holds what it held before the call, or holds a
\* complete Header..Trailer file.
C12_Original ==
    pc = "failed" =>
       \/ fs_out[outFile] \in {NoFile, OldFile}
       \/ Complete(fs_out[outFile])

\* a run fails at the Header: the output path, whatever it held, is left as an
\* empty file that was never closed
C12_EmptyFileLeft ==
    /\ pc = "failed"
    /\ fs_out[outFile] = [exists |-> TRUE, open |-> TRUE, data |-> <<>>]

\* a run fails between two Detail records: Header and first Detail are left
C12_PrefixLeft ==
    /\ pc = "failed"
    /\ Len(fs_out[outFile].data) = 4
    /\ IsDetail(fs_out[outFile].data[3])
    /\ Len(payment_records) = 2 /\ wi = 2

(***************************************************************************)
(* Several files converted by one click                                    *)
(***************************************************************************)
Trailer(p) == fs_out[OutPath(p)].data[Len(fs_out[OutPath(p)].data)]

\* C13: every call of writeACHFile starts its own counters: the record
\* counter is 1 when the Header is built and 2 when the row loop begins, the
\* totals are 0 and the list of records empty, whatever an earlier call left;
\* so each converted file's Header has sequence number 1 and its Trailer
\* shows the sum and the number of its own accepted rows only.
C13_RunsIndependent ==
    /\ pc = "EmittingHeader" => RECORD_COUNT = 1
    /\ (pc = "EmittingDetails" /\ r = FirstRow) =>
          /\ RECORD_COUNT = 2
          /\ total_debit_amount = Num(0)
          /\ total_debit_records = 0
          /\ payment_records = <<>>
    /\ \A i \in 1..Len(file_list) :
          LET p == file_list[i].from
              acc == AcceptedFrom(fs_in[p], FirstRow)
              sum == SumCents(fs_in[p], acc)
          IN /\ SeqNo(fs_out[OutPath(p)].data[1]) = 1
             /\ SeqNo(Trailer(p)) = Len(acc) + 2
             /\ SubSeq(Trailer(p), 39, 46) = ZeroPadded(NatToString(Len(acc)), 8)
             /\ sum >= 0 => SubSeq(Trailer(p), 25, 38) = ZeroPadded(NatToString(sum), 14)

\* two unrelated files converted one after the other: 100.00 in one row, then
\* 50.25 - 2.50 in two rows
C13_Witness ==
    /\ Len(file_list) = 2
    /\ SumCents(fs_in[PathA], AcceptedFrom(fs_in[PathA], FirstRow)) = 10000
    /\ Len(AcceptedFrom(fs_in[PathB], FirstRow)) = 2
    /\ SubSeq(Trailer(PathB), 25, 38) = ZeroPadded(NatToString(4775), 14)
    /\ SubSeq(Trailer(PathB), 39, 46) = ZeroPadded(NatToString(2), 8)
    /\ SeqNo(fs_out[OutPath(PathB)].data[1]) = 1

(***************************************************************************)
(* The mode argument of writeACHFile                                       *)
(***************************************************************************)
\* every file-level cell and every accepted row of the sheet renders in its
\* field
WellFormed(sheet) ==
    /\ MetaRenders(sheet, <<>>)
    /\ moment(cell(sheet, 5, 2)).valid
    /\ \A k \in 1..Len(AcceptedFrom(sheet, FirstRow)) :
          RowRenders(sheet, AcceptedFrom(sheet, FirstRow)[k])

\* the records a sheet alone determines, the Detail's type field set aside
HeaderOf(sheet) ==
    ACHHeader_toString(ACHHeader(JsInt(1), cell(sheet, 2, 2), JsInt(1),
                                 cell(sheet, 3, 2), cell(sheet, 4, 2))).s
DetailOf(sheet, k) ==
    LET row == AcceptedFrom(sheet, FirstRow)[k]
        transit == Join(<<numeric(cell(sheet, row, 3), 4),
                          numeric(cell(sheet, row, 4), 5)>>)
        g == Segment(cell(sheet, 6, 2), cell(sheet, row, 6),
                     moment(cell(sheet, 5, 2)), Str(transit.s),
                     cell(sheet, row, 5), Str(<<>>), cell(sheet, row, 2),
                     cell(sheet, 1, 2), cell(sheet, 2, 2), cell(sheet, row, 1),
                     Str(<<>>))
    IN ACHBasicPayment_toString(
          add_segment(ACHBasicPayment(Str(<<"?">>), JsInt(k + 1), cell(sheet, 2, 2),
                                      JsInt(k + 1)), g)).s
TrailerOf(sheet) ==
    LET acc == AcceptedFrom(sheet, FirstRow)
    IN ACHTrailer_toString(
          ACHTrailer(JsInt(Len(acc) + 2), cell(sheet, 2, 2), JsInt(Len(acc) + 2),
                     Num(SumCents(sheet, acc)), JsInt(Len(acc)))).s

RecordModes == {<<"P", "A", "D">>, <<"P", "D", "S">>}

\* C14 as stated: with record_mode "PAD" or "PDS" the conversion of a
\* well-formed sheet never fails (each Detail record being written with a
\* type field of one character).
C14_Original ==
    (InCall /\ export_type \in RecordModes /\ WellFormed(worksheet)) => pc # "failed"

\* C14 amended: mode is itself the text of the Detail's type field. A mode of
\* one character is the first character of every Detail record, the Header
\* beginning with "A" and the Trailer with "Z", and every other character of
\* the output is what the sheet alone determines; no failure on a well-formed
\* sheet comes with such a mode. A longer mode ("PAD", "PDS") never reaches
\* the output: with an accepted row the run fails with a RangeError at the
\* first Detail, the Header alone written; with none it completes.
C14_ModeIsTypeField ==
    /\ \A e \in Converted :
          LET sheet == fs_in[e.from]
              data == fs_out[e.to].data
              n == Len(AcceptedFrom(sheet, FirstRow))
          IN /\ data[1] = HeaderOf(sheet) /\ data[1][1] = "A"
             /\ data[Len(data)] = TrailerOf(sheet) /\ data[Len(data)][1] = "Z"
             /\ Len(data) = 2 * n + 3
             /\ n > 0 => Len(export_type) = 1
             /\ \A k \in 1..n :
                   /\ data[2 * k + 1][1] = export_type[1]
                   /\ Tail(data[2 * k + 1]) = Tail(DetailOf(sheet, k))
    /\ (pc = "failed" /\ WellFormed(worksheet)) =>
          /\ Len(export_type) > 1
          /\ error = "RangeError"
          /\ fs_out[outFile].data = <<HeaderOf(worksheet), Delimiter>>
    /\ (pc = "WriteDetails" /\ Len(export_type) > 1) => wi = 1

C14_Witness ==
    /\ export_type = <<"C">>
    /\ \E e \in Converted :
          /\ WellFormed(fs_in[e.from])
          /\ Len(fs_out[e.to].data) = 5
          /\ fs_out[e.to].data[3][1] = "C"

C14_WitnessLongMode ==
    /\ pc = "failed" /\ error = "RangeError"
    /\ export_type = <<"P", "D", "S">>
    /\ WellFormed(worksheet)
    /\ Len(payment_records) = 1

(***************************************************************************)
(* The order of the phases of writeACHFile and the end of the row loop     *)
(***************************************************************************)
\* the File Assembler's state at each point of the handler: the records are
\* built in this order and written once the Trailer is built
Phase ==
    IF pc = "Start" THEN "Start"
    ELSE IF pc = "EmittingHeader" THEN "EmittingHeader"
    ELSE IF pc = "EmittingDetails" THEN "EmittingDetails"
    ELSE IF pc \in {"EmittingTrailer", "Open", "WriteHeader", "WriteDetails"}
    THEN "EmittingTrailer"
    ELSE IF pc \in {"next", "finished"} THEN "Done"
    ELSE pc

PhaseOrder == {<<"Start", "EmittingHeader">>, <<"EmittingHeader", "EmittingDetails">>,
               <<"EmittingDetails", "EmittingTrailer">>, <<"EmittingTrailer", "Done">>,
               <<"Done", "Start">>}

\* a change of phase goes to the next phase of the same run, to the terminal
\* failure, or from Done to the Start of the next file's run; a step inside
\* the row loop moves to a later row
C15_Step ==
    /\ Phase' # Phase =>
          \/ <<Phase, Phase'>> \in PhaseOrder /\ (Phase = "Done" => fi <= Len(input_file_path))
          \/ Phase' = "failed" /\ Phase \in {"EmittingDetails", "EmittingTrailer"}
    /\ (Phase = "EmittingDetails" /\ Phase' = "EmittingDetails") => r' = r + 1
    /\ Phase = "Done" => fi' = fi

\* the row loop never reads past the row after the last one the sheet holds
C15_Bounded ==
    pc = "EmittingDetails" => r <= FirstRow + Len(RowsOf(worksheet))

\* C15: the phases follow one another in the order Start, EmittingHeader,
\* EmittingDetails, EmittingTrailer, Done, none revisited within a run, and
\* the row loop is always left: every run that enters EmittingDetails reaches
\* EmittingTrailer or fails.
C15_OrderAndTermination ==
    /\ [][C15_Step]_vars
    /\ []C15_Bounded
    /\ (pc = "EmittingDetails") ~> (Phase \in {"EmittingTrailer", "failed"})

\* a sheet of suspended rows only, with no end-of-data row, has left the loop
C15_Witness ==
    /\ pc = "EmittingTrailer"
    /\ Len(RowsOf(worksheet)) = MaxRows
    /\ \A i \in 1..MaxRows : IsSuspendedRow(RowsOf(worksheet)[i])
    /\ r = FirstRow + MaxRows
    /\ payment_records = <<>>

(***************************************************************************)
(* The Tauri front end (App.tsx): the two App components and their         *)
(* handlers.  The native dialogs are modal: a handler's dialog is answered *)
(* before another handler runs.                                            *)
(***************************************************************************)
MaxConverts == 2

\* what the file dialog can return: the chosen paths, or null when cancelled
Selections == {<<"a.csv">>, <<"b.csv">>, <<"a.csv", "b.csv">>, <<"b.csv", "a.csv">>}
\* what the directory dialog can return
Directories == {Str(<<"/", "o", "u", "t">>), Null}
RecordTypes == {"PDS", "PAD"}
\* what the backend command answers
Replies == {<<>>, <<"reply">>}

MsgNoInput == "Must select at least 1 input file."
MsgNoOutput == "Must select an output directory."
MsgNoInputText == "Must select at least 1 input file.\n"
MsgNoOutputText == "Must select an output directory.\n"

InitTauri ==
    /\ fs_in = <<>>
    /\ fs_out = <<>>
    /\ input_file_path = <<>>
    /\ export_type = <<>>
    /\ file_list = <<>>
    /\ fi = 1
    /\ pc = "off"
    /\ error = ""
    /\ worksheet = <<>>
    /\ meta = <<>>
    /\ RECORD_COUNT = 0
    /\ header = NoRecord
    /\ payment_records = <<>>
    /\ r = 0
    /\ total_debit_amount = Null
    /\ total_debit_records = 0
    /\ t = NoRecord
    /\ wi = 0
    /\ fmt = NoFmt
    /\ component \in {1, 2}
    /\ inputFiles = <<>>
    /\ recordType = "PDS"
    /\ outputDir = Str(<<>>)
    /\ response = <<>>
    /\ convertCalls = 0
    /\ convertArgs = NoCall
    /\ rejection = ""

RECURSIVE removeDuplicates(_)
removeDuplicates(L) ==
    IF L = <<>> THEN <<>>
    ELSE LET unique == removeDuplicates(SubSeq(L, 1, Len(L) - 1))
         IN IF \E i \in 1..Len(unique) : unique[i] = L[Len(L)] THEN unique
            ELSE Append(unique, L[Len(L)])

\* setOutputDir(selected)
dialogSelector ==
    /\ component \in {1, 2}
    /\ \E selected \in Directories : outputDir' = selected
    /\ rejection' = ""
    /\ UNCHANGED <<convVars, fmt, component, inputFiles, recordType, response,
                   convertCalls, convertArgs>>

\* spreading null, the answer of a cancelled dialog, throws
onInputSelect ==
    /\ component \in {1, 2}
    /\ \E selected \in Selections \cup {<<"null">>} :
          IF selected = <<"null">>
          THEN rejection' = "TypeError" /\ UNCHANGED inputFiles
          ELSE /\ inputFiles' = removeDuplicates(inputFiles \o selected)
               /\ rejection' = ""
    /\ UNCHANGED <<convVars, fmt, component, recordType, outputDir, response,
                   convertCalls, convertArgs>>

onRemoveInputFile ==
    /\ component \in {1, 2}
    /\ \E i \in 1..Len(inputFiles) :
          inputFiles' = SelectSeq(inputFiles, LAMBDA v : v # inputFiles[i])
    /\ rejection' = ""
    /\ UNCHANGED <<convVars, fmt, component, recordType, outputDir, response,
                   convertCalls, convertArgs>>

setRecordType ==
    /\ component \in {1, 2}
    /\ \E v \in RecordTypes : recordType' = v
    /\ rejection' = ""
    /\ UNCHANGED <<convVars, fmt, component, inputFiles, outputDir, response,
                   convertCalls, convertArgs>>

\* invoke("convert", {filename, recordType, outputDirectory}) and its answer
invoke ==
    /\ convertCalls' = convertCalls + 1
    /\ convertArgs' = [filename |-> inputFiles, recordType |-> recordType,
                       outputDirectory |-> outputDir]
    /\ \E data \in Replies : response' = data

\* the App whose Log is a list of messages
onConvert ==
    /\ component = 1
    /\ convertCalls < MaxConverts
    /\ IF outputDir = Null
       THEN /\ rejection' = "TypeError"
            /\ UNCHANGED <<response, convertCalls, convertArgs>>
       ELSE LET errorMessages ==
                   (IF Len(inputFiles) = 0 THEN <<MsgNoInput>> ELSE <<>>)
                   \o (IF Len(Trim(outputDir.s)) = 0 THEN <<MsgNoOutput>> ELSE <<>>)
            IN /\ rejection' = ""
               /\ IF Len(errorMessages) > 0
                  THEN /\ response' = errorMessages
                       /\ UNCHANGED <<convertCalls, convertArgs>>
                  ELSE invoke
    /\ UNCHANGED <<convVars, fmt, component, inputFiles, recordType, outputDir>>

\* the App whose Log is a text: each setResponse replaces the text, and only
\* a missing input file is counted as an error
onConvertText ==
    /\ component = 2
    /\ convertCalls < MaxConverts
    /\ LET errorCount == IF Len(inputFiles) = 0 THEN 1 ELSE 0
           first == IF Len(inputFiles) = 0 THEN <<MsgNoInputText>> ELSE response
       IN IF outputDir = Null
          THEN /\ rejection' = "TypeError"
               /\ response' = first
               /\ UNCHANGED <<convertCalls, convertArgs>>
          ELSE LET second == IF Len(Trim(outputDir.s)) = 0 THEN <<MsgNoOutputText>>
                             ELSE first
               IN /\ rejection' = ""
                  /\ IF errorCount > 0
                     THEN /\ response' = second
                          /\ UNCHANGED <<convertCalls, convertArgs>>
                     ELSE invoke
    /\ UNCHANGED <<convVars, fmt, component, inputFiles, recordType, outputDir>>

TauriNext ==
    \/ dialogSelector
    \/ onInputSelect
    \/ onRemoveInputFile
    \/ setRecordType
    \/ onConvert
    \/ onConvertText

TauriSpec == InitTauri /\ [][TauriNext]_vars

\* a Convert click, and what the Log shows
ConvertClicked == onConvert \/ onConvertText
Shown(lines, msg) == \E i \in 1..Len(lines) : lines[i] = msg
NoOutputDir == outputDir = Null \/ Len(Trim(outputDir.s)) = 0

\* C16: a Convert click calls the backend only with at least one input file
\* and a non-empty output directory; with no input file the Log shows "Must
\* select at least 1 input file.", with no output directory it shows "Must
\* select an output directory.", and the backend is not called.
C16_Step ==
    ConvertClicked =>
       /\ convertCalls' # convertCalls => (Len(inputFiles) > 0 /\ ~NoOutputDir)
       /\ Len(inputFiles) = 0 =>
             Shown(response', MsgNoInput) \/ Shown(response', MsgNoInputText)
       /\ NoOutputDir =>
             Shown(response', MsgNoOutput) \/ Shown(response', MsgNoOutputText)

C16_Original == [][C16_Step]_vars

\* the backend is called with an empty output directory
C16_ConvertWithoutDirectory ==
    /\ component = 2
    /\ convertCalls = 1
    /\ convertArgs.outputDirectory = Str(<<>>)
    /\ Len(convertArgs.filename) = 2

\* after a cancelled directory dialog the click shows no message at all
C16_NoMessage ==
    /\ component = 1
    /\ rejection = "TypeError"
    /\ outputDir = Null
    /\ Len(inputFiles) = 0
    /\ response = <<>>
    /\ convertCalls = 0

====
